---- MODULE Spec2Model ----
(***************************************************************************)
(* Model of src/main.py: the LightsPlugin device store (a class-level     *)
(* list of dicts handed out by reference) and the console chat loop of    *)
(* main() that threads a ChatHistory through an auto-function-calling     *)
(* completion request.                                                     *)
(***************************************************************************)
EXTENDS Integers, Sequences, FiniteSets, TLC

\* ---------------------------------------------------------------- bounds
\* Number of input() calls explored per run.
MaxTurns == 2
\* Number of tool-call batches explored inside one completion request.  The
\* source sets no limit (FunctionChoiceBehavior.Auto() without arguments).
MaxRounds == 2
\* light_id arguments range over 0..MaxId (ids 1..3 exist, the rest do not).
MaxId == 4

\* ---------------------------------------------------------------- data
\* Console lines the user can type.
Lines == {"exit", "turn on the porch light"}

IdArgs == 0..MaxId

\* LightsPlugin.lights as written in the class body.
SeedLights ==
  << [id |-> 1, name |-> "Table Lamp",  is_on |-> FALSE],
     [id |-> 2, name |-> "Porch light", is_on |-> FALSE],
     [id |-> 3, name |-> "Chandelier",  is_on |-> TRUE] >>

SeedIds == {SeedLights[i].id : i \in 1..Len(SeedLights)}

\* Python values returned by the plugin functions.  A list or a dict is
\* returned as a reference to the object held by the store.
NoneVal == [kind |-> "None"]
ListRef == [kind |-> "list_ref"]
DictRef(i) == [kind |-> "dict_ref", idx |-> i]

\* What a holder of the returned value r reads when the store holds ls: the
\* listed records (a dict counts as a one-record listing, None as none).
Deref(r, ls) ==
  IF r.kind = "list_ref" THEN ls
  ELSE IF r.kind = "dict_ref" THEN <<ls[r.idx]>>
  ELSE <<>>

\* Python assignment r[...]["is_on"] = v by a holder of r: record number i of
\* what r designates is written, and the object written is the store's own
\* dict because r is a reference to it.
WriteThrough(r, ls, i, v) ==
  IF r.kind = "list_ref" THEN [ls EXCEPT ![i].is_on = v]
  ELSE IF r.kind = "dict_ref" THEN [ls EXCEPT ![r.idx].is_on = v]
  ELSE ls

\* ---------------------------------------------------------------- plugin
\* LightsPlugin.get_state: `return self.lights`.
get_state(ls) == ListRef

\* for light in self.lights: if light["id"] == light_id: ... ; return None
RECURSIVE change_state_from(_, _, _, _)
change_state_from(ls, i, light_id, is_on) ==
  IF i > Len(ls) THEN [lights |-> ls, ret |-> NoneVal]
  ELSE IF ls[i].id = light_id
       THEN [lights |-> [ls EXCEPT ![i].is_on = is_on], ret |-> DictRef(i)]
       ELSE change_state_from(ls, i + 1, light_id, is_on)

\* change_state with `light["is_on"] = not light["is_on"]`.
RECURSIVE change_state_toggle_from(_, _, _, _)
change_state_toggle_from(ls, i, light_id, is_on) ==
  IF i > Len(ls) THEN [lights |-> ls, ret |-> NoneVal]
  ELSE IF ls[i].id = light_id
       THEN [lights |-> [ls EXCEPT ![i].is_on = ~ls[i].is_on], ret |-> DictRef(i)]
       ELSE change_state_toggle_from(ls, i + 1, light_id, is_on)

change_state_toggle(ls, light_id, is_on) ==
  change_state_toggle_from(ls, 1, light_id, is_on)

\* change_state that uses the loop variable after the loop: an absent id
\* falls through to the last light.
change_state_fallthrough(ls, light_id, is_on) ==
  LET r == change_state_from(ls, 1, light_id, is_on) IN
    IF r.ret = NoneVal
      THEN [lights |-> [ls EXCEPT ![Len(ls)].is_on = is_on],
            ret |-> DictRef(Len(ls))]
      ELSE r

\* change_state that registers an unknown id instead of returning None.
change_state_upsert(ls, light_id, is_on) ==
  LET r == change_state_from(ls, 1, light_id, is_on) IN
    IF r.ret = NoneVal
      THEN [lights |-> Append(ls, [id |-> light_id, name |-> "", is_on |-> is_on]),
            ret |-> DictRef(Len(ls) + 1)]
      ELSE r

\* LightsPlugin.change_state
change_state(ls, light_id, is_on) == change_state_from(ls, 1, light_id, is_on)

\* ---------------------------------------------------------------- state
VARIABLES
  pc,            \* position in main(): start, input, check, await, add, done, crashed
  keySet,        \* whether OPENAI_API_KEY is in os.environ
  user_input,    \* <<>> for None, <<line>> after input()
  history,       \* ChatHistory: sequence of [role, content]
  historyBefore, \* history as it was when the current turn's line was read
  result,        \* <<>> or <<message>> returned by get_chat_message_content
  lights,        \* LightsPlugin.lights
  ret,           \* value returned by the latest plugin call
  lastOp,        \* latest operation on the store
  lastArgs,      \* arguments of the latest change_state call
  lastSet,       \* per seed id: {} or {is_on of the latest change_state for it}
  rounds,        \* tool-call batches served in the current request
  turns,         \* input() calls so far
  requests,      \* requests sent to the completion service
  error,         \* exception that left main(), or "none"
  console        \* last line printed

vars == <<pc, keySet, user_input, history, historyBefore, result, lights, ret,
          lastOp, lastArgs, lastSet, rounds, turns, requests, error, console>>

storeVars == <<lights, ret, lastOp, lastArgs, lastSet>>

NoArgs == [light_id |-> 0, is_on |-> FALSE]

Init ==
  /\ pc = "start"
  /\ keySet \in BOOLEAN
  /\ user_input = <<>>
  /\ history = <<>>
  /\ historyBefore = <<>>
  /\ result = <<>>
  /\ lights = SeedLights
  /\ ret = NoneVal
  /\ lastOp = "none"
  /\ lastArgs = NoArgs
  /\ lastSet = [id \in SeedIds |-> {}]
  /\ rounds = 0
  /\ turns = 0
  /\ requests = 0
  /\ error = "none"
  /\ console = <<>>

\* ---------------------------------------------------------------- main()
\* Startup reading the key with environ.get: a missing key is not noticed.
Startup_ignoreKey ==
  /\ pc = "start"
  /\ pc' = "input"
  /\ UNCHANGED <<keySet, user_input, history, historyBefore, result, rounds,
                 turns, requests, error, console>>
  /\ UNCHANGED storeVars

\* Lines 93-120: environ["OPENAI_API_KEY"] raises KeyError when the variable
\* is unset; otherwise the kernel, plugin, settings and an empty ChatHistory
\* are built and user_input = None.
Startup ==
  /\ pc = "start"
  /\ IF keySet
       THEN /\ pc' = "input"
            /\ error' = error
       ELSE /\ pc' = "crashed"
            /\ error' = "KeyError"
  /\ UNCHANGED <<keySet, user_input, history, historyBefore, result, rounds,
                 turns, requests, console>>
  /\ UNCHANGED storeVars

\* Line 123: user_input = input("User > ")
ReadInput ==
  /\ pc = "input"
  /\ turns < MaxTurns
  /\ \E line \in Lines : user_input' = <<line>>
  /\ turns' = turns + 1
  /\ historyBefore' = history
  /\ console' = <<"User > ">>
  /\ pc' = "check"
  /\ UNCHANGED <<keySet, history, result, rounds, requests, error>>
  /\ UNCHANGED storeVars

\* Lines 126-127: if user_input == "exit": break; main() returns.
ExitLoop ==
  /\ pc = "check"
  /\ user_input = <<"exit">>
  /\ pc' = "done"
  /\ UNCHANGED <<keySet, user_input, history, historyBefore, result, rounds,
                 turns, requests, error, console>>
  /\ UNCHANGED storeVars

\* Line 130 reached without the exit test of lines 126-127.
AddUserMessage_noBreak ==
  /\ pc = "check"
  /\ history' = Append(history, [role |-> "user", content |-> user_input[1]])
  /\ rounds' = 0
  /\ pc' = "await"
  /\ UNCHANGED <<keySet, user_input, historyBefore, result, turns, requests,
                 error, console>>
  /\ UNCHANGED storeVars

\* Line 130: history.add_user_message(user_input)
AddUserMessage ==
  /\ pc = "check"
  /\ user_input # <<"exit">>
  /\ history' = Append(history, [role |-> "user", content |-> user_input[1]])
  /\ rounds' = 0
  /\ pc' = "await"
  /\ UNCHANGED <<keySet, user_input, historyBefore, result, turns, requests,
                 error, console>>
  /\ UNCHANGED storeVars

\* Lines 133-137, the service answers with a tool call: the kernel invokes
\* the registered plugin function and the call and its result are threaded
\* into the history that was passed in.
ToolCallGetLights ==
  /\ pc = "await"
  /\ rounds < MaxRounds
  /\ ret' = get_state(lights)
  /\ lights' = lights
  /\ lastOp' = "get_lights"
  /\ UNCHANGED <<lastArgs, lastSet>>
  /\ history' = history \o << [role |-> "assistant", content |-> "get_lights"],
                              [role |-> "tool", content |-> "get_lights"] >>
  /\ rounds' = rounds + 1
  /\ requests' = requests + 1
  /\ UNCHANGED <<pc, keySet, user_input, historyBefore, result, turns, error,
                 console>>

ToolCallChangeState ==
  /\ pc = "await"
  /\ rounds < MaxRounds
  /\ \E light_id \in IdArgs, is_on \in BOOLEAN :
       LET r == change_state(lights, light_id, is_on) IN
         /\ lights' = r.lights
         /\ ret' = r.ret
         /\ lastArgs' = [light_id |-> light_id, is_on |-> is_on]
         /\ lastSet' = IF light_id \in SeedIds
                         THEN [lastSet EXCEPT ![light_id] = {is_on}]
                         ELSE lastSet
  /\ lastOp' = "change_state"
  /\ history' = history \o << [role |-> "assistant", content |-> "change_state"],
                              [role |-> "tool", content |-> "change_state"] >>
  /\ rounds' = rounds + 1
  /\ requests' = requests + 1
  /\ UNCHANGED <<pc, keySet, user_input, historyBefore, result, turns, error,
                 console>>

\* Lines 133-137, the service answers with text: result is bound.
FinalAnswer ==
  /\ pc = "await"
  /\ result' = << [role |-> "assistant", content |-> "answer"] >>
  /\ requests' = requests + 1
  /\ pc' = "add"
  /\ UNCHANGED <<keySet, user_input, history, historyBefore, rounds, turns,
                 error, console>>
  /\ UNCHANGED storeVars

\* Lines 133-137, the awaited call raises: main() has no try/except, so the
\* exception leaves main() and asyncio.run().
ServiceError ==
  /\ pc = "await"
  /\ requests' = requests + 1
  /\ error' = "ServiceError"
  /\ pc' = "crashed"
  /\ UNCHANGED <<keySet, user_input, history, historyBefore, result, rounds,
                 turns, console>>
  /\ UNCHANGED storeVars

\* Lines 140-143 without history.add_message(result).
AddResult_noAppend ==
  /\ pc = "add"
  /\ console' = <<"Assistant > ", result[1].content>>
  /\ pc' = "input"
  /\ UNCHANGED <<keySet, user_input, history, historyBefore, result, rounds,
                 turns, requests, error>>
  /\ UNCHANGED storeVars

\* Lines 140-143: print("Assistant > " + str(result)); history.add_message(result)
AddResult ==
  /\ pc = "add"
  /\ console' = <<"Assistant > ", result[1].content>>
  /\ history' = Append(history, result[1])
  /\ pc' = "input"
  /\ UNCHANGED <<keySet, user_input, historyBefore, result, rounds, turns,
                 requests, error>>
  /\ UNCHANGED storeVars

Next ==
  \/ Startup
  \/ ReadInput
  \/ ExitLoop
  \/ AddUserMessage
  \/ ToolCallGetLights
  \/ ToolCallChangeState
  \/ FinalAnswer
  \/ ServiceError
  \/ AddResult

Spec == Init /\ [][Next]_vars

\* A holder of a value returned by a plugin function writes a field of it.
\* The write lands wherever the reference points.
CallerWrite ==
  /\ pc = "await"
  /\ ret.kind \in {"list_ref", "dict_ref"}
  /\ \E i \in 1..Len(Deref(ret, lights)) :
       lights' = WriteThrough(ret, lights, i, ~Deref(ret, lights)[i].is_on)
  /\ lastOp' = "caller_write"
  /\ UNCHANGED <<pc, keySet, user_input, history, historyBefore, result, ret,
                 lastArgs, lastSet, rounds, turns, requests, error, console>>

NextAlias ==
  \/ Next
  \/ CallerWrite

SpecAlias == Init /\ [][NextAlias]_vars

\* ---------------------------------------------------------------- claims
AbsentId(ls, light_id) == \A i \in 1..Len(ls) : ls[i].id # light_id

\* A step of the store made by a plugin call of the kernel.
ToolStep == rounds' = rounds + 1

\* C1: after change_state(id, v) for a seed id, the list returned by
\* get_lights shows that device with is_on equal to the v of the most recent
\* change_state call for that id (in particular true after set to true).
C1_ListShowsLatestPower ==
  lastOp = "get_lights" =>
    \A id \in SeedIds : \A v \in lastSet[id] :
      \E i \in 1..Len(Deref(ret, lights)) :
        /\ Deref(ret, lights)[i].id = id
        /\ Deref(ret, lights)[i].is_on = v

C1_Witness ==
  /\ lastOp = "get_lights"
  /\ lastSet[2] = {TRUE}
  /\ \E i \in 1..Len(Deref(ret, lights)) :
       Deref(ret, lights)[i].id = 2 /\ Deref(ret, lights)[i].is_on

\* C2: change_state with an id that no device has returns None (and returns
\* None in no other case), raises nothing and leaves the store as it was.
C2_AbsentIdIsNotFound ==
  [][(ToolStep /\ lastOp' = "change_state") =>
       /\ (ret' = NoneVal) <=> AbsentId(lights, lastArgs'.light_id)
       /\ AbsentId(lights, lastArgs'.light_id) =>
            /\ lights' = lights
            /\ error' = "none"
            /\ pc' = "await"]_vars

C2_Witness ==
  /\ lastOp = "change_state"
  /\ lastArgs.light_id \notin SeedIds
  /\ ret = NoneVal
  /\ lights # SeedLights

\* C3: the value returned by get_lights is a snapshot: a write a caller makes
\* to it never changes the store.
C3_ReturnIsSnapshot ==
  [][lastOp' = "caller_write" => lights' = lights]_vars

\* C4: when the line read is "exit" the driver leaves the loop and returns
\* without appending to the history, sending a request or touching the store.
C4_ExitAppendsNothing ==
  [][user_input' = <<"exit">> =>
       /\ UNCHANGED <<history, requests, lights>>
       /\ pc' \in {"check", "done"}
       /\ error' = "none"
       /\ (pc = "check" /\ user_input = <<"exit">>) => pc' = "done"]_vars

C4_Witness ==
  /\ pc = "done"
  /\ user_input = <<"exit">>
  /\ Len(history) >= 2
  /\ requests >= 1

\* C5: a request that has been answered with tool-call batches up to the
\* round bound has failed with ToolLoopExceededError and is no longer
\* waiting for the service.
C5_ToolLoopFailsAtBound ==
  rounds >= MaxRounds => (error = "ToolLoopExceededError" /\ pc # "await")

\* C6: an error raised by the completion call of a turn is caught: the
\* session is still running and goes on to read the next line.
C6_TurnErrorKeepsSession ==
  error = "ServiceError" => pc \in {"input", "check", "await", "add"}

\* C7: after a failed completion call the history is what it was before the
\* turn began.
C7_FailedTurnRolledBack ==
  error = "ServiceError" => history = historyBefore

C9_MissingKeyIsFatalAtStartup ==
  ~keySet =>
    /\ pc \in {"start", "crashed"}
    /\ pc = "crashed" => error = "KeyError"
    /\ turns = 0
    /\ user_input = <<>>
    /\ history = <<>>
    /\ requests = 0

C9_Witness == ~keySet /\ pc = "crashed" /\ error = "KeyError"

StoreShape ==
  /\ Len(lights) = Len(SeedLights)
  /\ \A i \in 1..Len(lights) :
       /\ DOMAIN lights[i] = {"id", "name", "is_on"}
       /\ lights[i].id = SeedLights[i].id
       /\ lights[i].name = SeedLights[i].name
       /\ lights[i].is_on \in BOOLEAN
  /\ \A i, j \in 1..Len(lights) : lights[i].id = lights[j].id => i = j

\* C10: the store always holds the three seed devices, in order, with their
\* ids and names; is_on of a device changes only in a change_state call
\* made with that device's id.
C10_StoreIsSeedUpToPower ==
  [][/\ StoreShape
     /\ StoreShape'
     /\ \A i \in 1..Len(lights) :
          lights'[i].is_on # lights[i].is_on =>
            /\ ToolStep
            /\ lastOp' = "change_state"
            /\ lastArgs'.light_id = lights[i].id]_vars

C10_Witness ==
  /\ lastOp = "change_state"
  /\ lastArgs.light_id \notin SeedIds
  /\ lights[1].is_on
  /\ ~lights[3].is_on
  /\ \E i \in 1..Len(history) : history[i].content = "get_lights"
====
